---- MODULE Spec2Model ----
(***************************************************************************)
(* Model of src/src/dvfile.h: the DVFile plane reader and the IVE-style    *)
(* handle table (IMOpen, IMClose, IMGetHdr, IMPosnZWT, IMRdSec).           *)
(*                                                                         *)
(* A file is its 2-byte marker, the raw bytes of the header fields the     *)
(* reader uses, and its total size.  A data byte is identified by its      *)
(* offset in the file, so a read is described by the offset it started at  *)
(* and the number of bytes it delivered.                                   *)
(***************************************************************************)
EXTENDS Integers, Sequences, FiniteSets, TLC

\* ---------------------------------------------------------------- bounds
MaxCount == 2    \* num_times ranges over 0..MaxCount
MaxCoord == 2    \* coordinates tried range over -1..MaxCoord
MaxHeaderRead == 4  \* sequential reads start at or above HeaderSize, or below this offset

Streams == {1, 2}
Paths == {"a.dv", "b.dv", "bad.dv", "none.dv"}
Attribs == {"ro", "new"}

VARIABLES fs, hostBig, dvfile_map, last, crashed

vars == <<fs, hostBig, dvfile_map, last, crashed>>

\* ------------------------------------------------------- pixel registry
getPixelTypeSize(mode) ==
  CASE mode = 0 -> 1
    [] mode = 1 -> 2
    [] mode = 2 -> 4
    [] mode = 3 -> 4
    [] mode = 4 -> 8
    [] mode = 5 -> 2
    [] mode = 6 -> 2
    [] mode = 7 -> 4
    [] OTHER -> 0      \* unordered_map::operator[] value-initialises

\* ------------------------------------------------------------ header
Fields == {"nx", "ny", "nz", "mode", "inbsym", "num_times", "interleaved", "num_waves"}

\* byte width of a field of IW_MRC_Header (int32_t or int16_t)
Width(f) == IF f \in {"num_times", "interleaved", "num_waves"} THEN 2 ELSE 4

HeaderSize == 1024

Pow256(k) == IF k = 0 THEN 1 ELSE IF k = 1 THEN 256 ELSE IF k = 2 THEN 65536 ELSE 16777216

Reverse(s) == [k \in 1..Len(s) |-> s[Len(s) + 1 - k]]

\* the bytes a writer stores for the non-negative value v in n bytes
ToBytes(v, n, big) ==
  LET le == [k \in 1..n |-> (v \div Pow256(k - 1)) % 256]
  IN IF big THEN Reverse(le) ELSE le

RECURSIVE SumLow(_, _)
SumLow(le, k) == IF k = 0 THEN 0 ELSE le[k] * Pow256(k - 1) + SumLow(le, k - 1)

\* the value the host sees in a two's complement integer whose memory holds b
FromBytes(b, big) ==
  LET le == IF big THEN Reverse(b) ELSE b
      n == Len(le)
      top == IF le[n] >= 128 THEN le[n] - 256 ELSE le[n]
  IN top * Pow256(n - 1) + SumLow(le, n - 1)

\* C++ integer division truncates toward zero
Quot(a, b) ==
  IF (a >= 0) = (b > 0) THEN (IF a >= 0 THEN a \div b ELSE (-a) \div (-b))
  ELSE (IF a >= 0 THEN -(a \div (-b)) ELSE -((-a) \div b))

sequence_order(interleaved) ==
  CASE interleaved = 0 -> <<"C", "T", "Z">>
    [] interleaved = 1 -> <<"T", "Z", "C">>
    [] interleaved = 2 -> <<"T", "C", "Z">>
    [] OTHER -> <<"C", "T", "Z">>

num_planes(hdr) ==
  Quot(Quot(hdr.nz, IF hdr.num_waves # 0 THEN hdr.num_waves ELSE 1),
       IF hdr.num_times # 0 THEN hdr.num_times ELSE 1)

ZeroHdr == [f \in Fields |-> 0]

\* ------------------------------------------------------------- files
NoFile == [exists |-> FALSE, marker |-> <<0, 0>>, raw |-> [f \in Fields |-> <<>>], size |-> 0]

MarkerLE == <<160, 192>>
MarkerBE == <<192, 160>>

\* a file holding the logical header h with its fields stored in the byte
\* order big, the given marker at offset 96, and size bytes in total
MkFile(marker, h, big, size) ==
  [exists |-> TRUE, marker |-> marker,
   raw |-> [f \in Fields |-> ToBytes(h[f], Width(f), big)], size |-> size]

\* ------------------------------------------------------ handle entries
Absent == [kind |-> "absent", path |-> "", big_endian |-> FALSE, hdr |-> ZeroHdr,
           closed |-> TRUE, pos |-> 0, fail |-> FALSE, eof |-> FALSE]

NullEntry == [Absent EXCEPT !.kind = "null"]

\* ------------------------------------------------- std::ifstream steps
\* seekg: clears eofbit, then seeks unless the stream has failed
seekg(d, off) ==
  LET d1 == [d EXCEPT !.eof = FALSE]
  IN IF d1.fail THEN d1
     ELSE IF d1.closed \/ off < 0 THEN [d1 EXCEPT !.fail = TRUE]
     ELSE [d1 EXCEPT !.pos = off]

\* read: delivers min(n, bytes left); a short read sets eofbit and failbit
read(d, n) ==
  IF d.fail \/ d.eof THEN [d |-> [d EXCEPT !.fail = TRUE], start |-> d.pos, got |-> 0]
  ELSE LET left == IF d.closed \/ fs[d.path].size <= d.pos THEN 0
                   ELSE fs[d.path].size - d.pos
           got == IF n <= left THEN n ELSE left
       IN [d |-> [d EXCEPT !.pos = d.pos + got,
                           !.eof = (got < n) \/ d.eof,
                           !.fail = (got < n) \/ d.fail],
           start |-> d.pos, got |-> got]

\* ------------------------------------------------------------- DVFile
ErrOpen == "Failed to open file"
ErrNotDV == "is not a recognized DV file."
ErrTime == "Time index out of range"
ErrWave == "Wavelength index out of range"
ErrSection == "Section index out of range"
ErrClosed == "Cannot read from closed file. Please reopen with .open()"
ErrStream == "Stream not found"

\* DVFile::DVFile(path): the exception thrown, or the object built
DVFile(path) ==
  LET f == fs[path]
      obj(big) == [kind |-> "dv", path |-> path, big_endian |-> big,
                   hdr |-> [x \in Fields |-> FromBytes(f.raw[x], hostBig)],
                   closed |-> FALSE, pos |-> HeaderSize, fail |-> FALSE, eof |-> FALSE]
  IN IF ~f.exists THEN [err |-> ErrOpen, obj |-> Absent]
     ELSE IF f.marker = MarkerLE THEN [err |-> "", obj |-> obj(FALSE)]
     ELSE IF f.marker = MarkerBE THEN [err |-> "", obj |-> obj(TRUE)]
     ELSE [err |-> ErrNotDV, obj |-> Absent]

\* the bounds test with > in place of >=
validateZWT_strict(hdr, z, w, t) ==
  IF t > hdr.num_times THEN ErrTime
  ELSE IF w > hdr.num_waves THEN ErrWave
  ELSE IF z > num_planes(hdr) THEN ErrSection
  ELSE ""

_validateZWT(hdr, z, w, t) ==
  IF t >= hdr.num_times THEN ErrTime
  ELSE IF w >= hdr.num_waves THEN ErrWave
  ELSE IF z >= num_planes(hdr) THEN ErrSection
  ELSE ""

getPixelSize(hdr) == getPixelTypeSize(hdr.mode)

frame_size(hdr) == hdr.ny * hdr.nx * getPixelSize(hdr)

\* the plane index taken in the order the interleave code names
section_offset_interleaved(hdr, z, w, t) ==
  CASE hdr.interleaved = 1 -> t * num_planes(hdr) * hdr.num_waves + z * hdr.num_waves + w
    [] hdr.interleaved = 2 -> t * hdr.num_waves * num_planes(hdr) + w * num_planes(hdr) + z
    [] OTHER -> w * hdr.num_times * num_planes(hdr) + t * num_planes(hdr) + z

section_offset(hdr, z, w, t) ==
  t * hdr.num_waves * num_planes(hdr) + w * num_planes(hdr) + z

\* DVFile::setCurrentZWT: the exception thrown, the object afterwards and
\* the offset handed to seekg
setCurrentZWT(d, z, w, t) ==
  LET e == _validateZWT(d.hdr, z, w, t)
      header_size == HeaderSize + d.hdr.inbsym
      off == header_size + section_offset(d.hdr, z, w, t) * frame_size(d.hdr)
  IN IF e # "" THEN [err |-> e, d |-> d, off |-> -1]
     ELSE [err |-> "", d |-> seekg(d, off), off |-> off]

\* readSec without the test of the closed flag
readSec_unchecked(d) ==
  LET r == read(d, frame_size(d.hdr))
  IN [err |-> "", d |-> r.d, start |-> r.start, got |-> r.got]

\* DVFile::readSec(void*): the exception thrown, the object afterwards and
\* the bytes put into the caller's array
readSec(d) ==
  IF d.closed THEN [err |-> ErrClosed, d |-> d, start |-> -1, got |-> 0]
  ELSE LET r == read(d, frame_size(d.hdr))
       IN [err |-> "", d |-> r.d, start |-> r.start, got |-> r.got]

\* DVFile::readSec(void*, t, w, z)
readSecZWT(d, t, w, z) ==
  LET s == setCurrentZWT(d, z, w, t)
  IN IF s.err # "" THEN [err |-> s.err, d |-> d, off |-> -1, start |-> -1, got |-> 0]
     ELSE LET r == readSec(s.d)
          IN [err |-> r.err, d |-> r.d, off |-> s.off, start |-> r.start, got |-> r.got]

\* DVFile::open: ifstream::open clears the stream state when it succeeds
open(d) ==
  IF ~d.closed THEN [err |-> "", d |-> d]
  ELSE IF ~fs[d.path].exists THEN [err |-> ErrOpen, d |-> [d EXCEPT !.fail = TRUE]]
  ELSE [err |-> "", d |-> [d EXCEPT !.closed = FALSE, !.pos = 0, !.fail = FALSE, !.eof = FALSE]]

\* DVFile::close
close(d) == IF ~d.closed THEN [d EXCEPT !.closed = TRUE, !.pos = 0] ELSE d

\* std::map<std::string,int> as the sequence of its entries in iteration
\* order, which is the order of the keys
CharCode(c) ==
  CASE c = "C" -> 67 [] c = "T" -> 84 [] c = "X" -> 88 [] c = "Y" -> 89 [] c = "Z" -> 90

RECURSIVE MapPut(_, _, _)
MapPut(m, key, val) ==
  IF m = <<>> THEN <<<<key, val>>>>
  ELSE IF Head(m)[1] = key THEN <<<<key, val>>>> \o Tail(m)
  ELSE IF CharCode(key) < CharCode(Head(m)[1]) THEN <<<<key, val>>>> \o m
  ELSE <<Head(m)>> \o MapPut(Tail(m), key, val)

RECURSIVE MapGet(_, _)
MapGet(m, key) ==
  IF m = <<>> THEN 0
  ELSE IF Head(m)[1] = key THEN Head(m)[2]
  ELSE MapGet(Tail(m), key)

\* DVFile::sizes
sizes(d) ==
  LET hdr == d.hdr
      num_real_z == Quot(Quot(hdr.nz, IF hdr.num_waves # 0 THEN hdr.num_waves ELSE 1),
                         IF hdr.num_times # 0 THEN hdr.num_times ELSE 1)
      dd == MapPut(MapPut(MapPut(MapPut(MapPut(<<>>, "T", hdr.num_times),
              "C", hdr.num_waves), "Z", num_real_z), "Y", hdr.ny), "X", hdr.nx)
      axes == sequence_order(hdr.interleaved) \o <<"Y", "X">>
      fill[k \in 0..5] == IF k = 0 THEN <<>>
                          ELSE MapPut(fill[k - 1], axes[k], MapGet(dd, axes[k]))
  IN fill[5]

\* ---------------------------------------------------- the handle table
\* erase that empties the table
erase_all(m, i) == [j \in DOMAIN m |-> Absent]

erase(m, i) == [m EXCEPT ![i] = Absent]

NoIdx == -99

\* what the caller observes of the last call
Obs(op, i, res) ==
  [op |-> op, i |-> i, res |-> res, z |-> 0, w |-> 0, t |-> 0, off |-> -1,
   start |-> -1, got |-> 0, out |-> <<>>, name |-> "", attrib |-> "", warn |-> FALSE,
   exp |-> NoIdx, next |-> NoIdx]

\* a call that dereferences a null unique_ptr ends the process
Undefined(op, i) ==
  /\ crashed' = TRUE
  /\ last' = Obs(op, i, "undefined")
  /\ UNCHANGED <<fs, hostBig, dvfile_map>>

\* the plane index a sequential read is expected to deliver, while the
\* index stays within the sections the header declares
Track(d, n) == IF n >= 0 /\ n <= d.hdr.nz THEN n ELSE NoIdx

IMOpen(i, name, attrib) ==
  /\ ~crashed
  /\ IF dvfile_map[i].kind = "null" THEN Undefined("IMOpen", i)
     ELSE LET reuse == dvfile_map[i].kind # "absent"
              m1 == IF reuse THEN erase(dvfile_map, i) ELSE dvfile_map
              c == DVFile(name)
              obs(res) == [Obs("IMOpen", i, res) EXCEPT !.name = name, !.attrib = attrib,
                                                       !.warn = reuse]
          IN /\ IF attrib = "ro"
                THEN IF c.err = ""
                     THEN /\ dvfile_map' = [m1 EXCEPT ![i] = c.obj]
                          /\ last' = obs("0")
                     ELSE \* operands of the assignment are unsequenced before
                          \* C++17: the map slot may exist when the throw happens
                          /\ dvfile_map' \in {m1, [m1 EXCEPT ![i] = NullEntry]}
                          /\ last' = obs("-1")
                ELSE /\ dvfile_map' = m1
                     /\ last' = obs("-1")
             /\ UNCHANGED <<fs, hostBig, crashed>>

IMClose(i) ==
  /\ ~crashed
  /\ dvfile_map' = erase(dvfile_map, i)
  /\ last' = Obs("IMClose", i, "returned")
  /\ UNCHANGED <<fs, hostBig, crashed>>

\* getDVFile(istream) followed by a call on the object
Thrown(op, i, e) ==
  /\ last' = Obs(op, i, e)
  /\ UNCHANGED <<fs, hostBig, dvfile_map, crashed>>

IMGetHdr(i) ==
  /\ ~crashed
  /\ CASE dvfile_map[i].kind = "absent" -> Thrown("IMGetHdr", i, ErrStream)
       [] dvfile_map[i].kind = "null" -> Undefined("IMGetHdr", i)
       [] OTHER ->
            /\ last' = [Obs("IMGetHdr", i, "returned") EXCEPT !.out = <<dvfile_map[i].hdr>>]
            /\ UNCHANGED <<fs, hostBig, dvfile_map, crashed>>

IMPosnZWT(i, iz, iw, it) ==
  /\ ~crashed
  /\ CASE dvfile_map[i].kind = "absent" -> Thrown("IMPosnZWT", i, ErrStream)
       [] dvfile_map[i].kind = "null" -> Undefined("IMPosnZWT", i)
       [] OTHER ->
            LET r == setCurrentZWT(dvfile_map[i], iz, iw, it)
                o == [Obs("IMPosnZWT", i, IF r.err = "" THEN "0" ELSE "1")
                        EXCEPT !.z = iz, !.w = iw, !.t = it, !.off = r.off]
            IN /\ dvfile_map' = [dvfile_map EXCEPT ![i] = r.d]
               /\ last' = IF r.err = ""
                          THEN [o EXCEPT !.next = Track(r.d, section_offset(r.d.hdr, iz, iw, it))]
                          ELSE o
               /\ UNCHANGED <<fs, hostBig, crashed>>

\* a reopened stream stands at offset 0: sequential reads through the
\* header are followed for the first MaxHeaderRead bytes only
ReadBound(i) == dvfile_map[i].pos >= HeaderSize \/ dvfile_map[i].pos < MaxHeaderRead

IMRdSec(i) ==
  /\ ~crashed
  /\ ReadBound(i)
  /\ CASE dvfile_map[i].kind = "absent" -> Thrown("IMRdSec", i, ErrStream)
       [] dvfile_map[i].kind = "null" -> Undefined("IMRdSec", i)
       [] OTHER ->
            LET r == readSec(dvfile_map[i])
                e == IF last.i = i THEN last.next ELSE NoIdx
            IN /\ dvfile_map' = [dvfile_map EXCEPT ![i] = r.d]
               /\ last' = [Obs("IMRdSec", i, IF r.err = "" THEN "returned" ELSE r.err)
                             EXCEPT !.start = r.start, !.got = r.got, !.exp = e,
                                    !.next = IF e = NoIdx THEN NoIdx ELSE Track(r.d, e + 1)]
               /\ UNCHANGED <<fs, hostBig, crashed>>

\* getDVFile(i).readSec(array, t, w, z)
ReadSecZWT(i, t, w, z) ==
  /\ ~crashed
  /\ CASE dvfile_map[i].kind = "absent" -> Thrown("readSecZWT", i, ErrStream)
       [] dvfile_map[i].kind = "null" -> Undefined("readSecZWT", i)
       [] OTHER ->
            LET r == readSecZWT(dvfile_map[i], t, w, z)
            IN /\ dvfile_map' = [dvfile_map EXCEPT ![i] = r.d]
               /\ last' = [Obs("readSecZWT", i, IF r.err = "" THEN "returned" ELSE r.err)
                             EXCEPT !.z = z, !.w = w, !.t = t, !.off = r.off,
                                    !.start = r.start, !.got = r.got]
               /\ UNCHANGED <<fs, hostBig, crashed>>

\* getDVFile(i).close()
Close(i) ==
  /\ ~crashed
  /\ CASE dvfile_map[i].kind = "absent" -> Thrown("close", i, ErrStream)
       [] dvfile_map[i].kind = "null" -> Undefined("close", i)
       [] OTHER ->
            /\ dvfile_map' = [dvfile_map EXCEPT ![i] = close(dvfile_map[i])]
            /\ last' = Obs("close", i, "returned")
            /\ UNCHANGED <<fs, hostBig, crashed>>

\* getDVFile(i).open()
Open(i) ==
  /\ ~crashed
  /\ CASE dvfile_map[i].kind = "absent" -> Thrown("open", i, ErrStream)
       [] dvfile_map[i].kind = "null" -> Undefined("open", i)
       [] OTHER ->
            LET r == open(dvfile_map[i])
            IN /\ dvfile_map' = [dvfile_map EXCEPT ![i] = r.d]
               /\ last' = Obs("open", i, IF r.err = "" THEN "returned" ELSE r.err)
               /\ UNCHANGED <<fs, hostBig, crashed>>

\* getDVFile(i).sizes()
Sizes(i) ==
  /\ ~crashed
  /\ CASE dvfile_map[i].kind = "absent" -> Thrown("sizes", i, ErrStream)
       [] dvfile_map[i].kind = "null" -> Undefined("sizes", i)
       [] OTHER ->
            /\ last' = [Obs("sizes", i, "returned") EXCEPT !.out = sizes(dvfile_map[i])]
            /\ UNCHANGED <<fs, hostBig, dvfile_map, crashed>>

\* ------------------------------------------------------ specifications
Coords == -1..MaxCoord

Hdr(x, y, m, e, nt, nw, zc, il) ==
  [nx |-> x, ny |-> y, nz |-> (IF nt = 0 THEN 1 ELSE nt) * (IF nw = 0 THEN 1 ELSE nw) * zc,
   mode |-> m, inbsym |-> e, num_times |-> nt, interleaved |-> il, num_waves |-> nw]

\* values of num_waves and of the sections per (time, wave)
Counts == {0, 1, 2}

\* logical headers of the files read: every combination of the three
\* counts, and every interleave code with three pixel layouts
Headers ==
  {Hdr(2, 1, 6, 4, nt, nw, zc, 1) : nt \in 0..MaxCount, nw \in Counts, zc \in Counts}
  \cup {Hdr(v[1], v[2], v[3], v[4], 2, 2, 2, il) :
          v \in {<<1, 1, 0, 0>>, <<2, 1, 6, 4>>, <<1, 2, 2, 0>>}, il \in 0..3}

\* headers of the files read in the runs that mix every operation
FewHeaders ==
  {Hdr(2, 1, 6, 4, 2, 1, 2, 1), Hdr(1, 1, 0, 0, 1, 2, 1, 0), Hdr(1, 2, 2, 0, 2, 2, 1, 2)}

DataBytes(h) == h.nz * h.nx * h.ny * getPixelTypeSize(h.mode)

\* a.dv stores h little-endian and b.dv stores it big-endian, each with the
\* matching marker; bad.dv has an unrecognised marker; none.dv does not
\* exist.  cut bytes are missing from the end of the data.
Files(h, cut) ==
  LET size == HeaderSize + h.inbsym + DataBytes(h) - (IF DataBytes(h) > 0 THEN cut ELSE 0)
  IN [p \in Paths |->
        CASE p = "a.dv" -> MkFile(MarkerLE, h, FALSE, size)
          [] p = "b.dv" -> MkFile(MarkerBE, h, TRUE, size)
          [] p = "bad.dv" -> MkFile(<<0, 0>>, h, FALSE, size)
          [] OTHER -> NoFile]

Start ==
  /\ dvfile_map = [i \in Streams |-> Absent]
  /\ last = Obs("none", 1, "returned")
  /\ crashed = FALSE

\* every operation on one stream of a little-endian host.  b.dv is opened
\* in SpecTable only: its fields decode to values of 2^24 and more, beyond
\* the products TLC can form for an offset.
Init ==
  /\ hostBig = FALSE
  /\ \E h \in FewHeaders, cut \in {0, 1} : fs = Files(h, cut)
  /\ Start

Next ==
  \/ \E name \in Paths \ {"b.dv"}, attrib \in Attribs : IMOpen(1, name, attrib)
  \/ IMClose(1)
  \/ IMGetHdr(1)
  \/ \E z \in Coords, w \in Coords, t \in Coords : IMPosnZWT(1, z, w, t)
  \/ IMRdSec(1)
  \/ \E z \in Coords, w \in Coords, t \in Coords : ReadSecZWT(1, t, w, z)
  \/ Close(1)
  \/ Open(1)
  \/ Sizes(1)

Spec == Init /\ [][Next]_vars

\* positioning and shape queries over the whole family of headers
InitAddr ==
  /\ hostBig = FALSE
  /\ \E h \in Headers : fs = Files(h, 0)
  /\ Start

NextAddr ==
  \/ IMOpen(1, "a.dv", "ro")
  \/ \E z \in Coords, w \in Coords, t \in Coords : IMPosnZWT(1, z, w, t)
  \/ Sizes(1)

SpecAddr == InitAddr /\ [][NextAddr]_vars

\* the handle table over files of both byte orders, on hosts of both
InitTable ==
  /\ hostBig \in BOOLEAN
  /\ \E h \in Headers : fs = Files(h, 0)
  /\ Start

NextTable ==
  \/ \E i \in Streams, name \in Paths, attrib \in Attribs : IMOpen(i, name, attrib)
  \/ \E i \in Streams : IMClose(i)
  \/ \E i \in Streams : IMGetHdr(i)

SpecTable == InitTable /\ [][NextTable]_vars

\* ---------------------------------------------------------------- claims
Cur == dvfile_map[last.i]

Max1(n) == IF n > 1 THEN n ELSE 1

\* the quantities of the format description
realZCount(h) == (h.nz \div Max1(h.num_waves)) \div Max1(h.num_times)

planeByteSize(h) == h.nx * h.ny * getPixelTypeSize(h.mode)

PlaneOffset(h, n) == 1024 + h.inbsym + n * planeByteSize(h)

PlaneIndex(h, t, c, z) == t * h.num_waves * realZCount(h) + c * realZCount(h) + z

InRange(h, t, c, z) ==
  /\ 0 <= t /\ t < h.num_times
  /\ 0 <= c /\ c < h.num_waves
  /\ 0 <= z /\ z < realZCount(h)

\* plane n is wholly present in the file behind d
PlaneStored(d, n) == n >= 0 /\ PlaneOffset(d.hdr, n + 1) <= fs[d.path].size

\* the file behind d holds every section its header declares
Complete(d) == PlaneOffset(d.hdr, d.hdr.nz) <= fs[d.path].size

RangeErrors == {ErrTime, ErrWave, ErrSection}

\* C1: a positioned call with in-range (t, c, z) seeks to
\* 1024 + extHeaderBytes + (t*num_waves*realZCount + c*realZCount + z) * planeByteSize,
\* whatever the interleave code; consecutive plane indices are planeByteSize apart.
C1_PlaneOffset ==
  (/\ last.op \in {"IMPosnZWT", "readSecZWT"}
   /\ Cur.kind = "dv"
   /\ InRange(Cur.hdr, last.t, last.w, last.z))
  => /\ last.off = PlaneOffset(Cur.hdr, PlaneIndex(Cur.hdr, last.t, last.w, last.z))
     /\ last.off + planeByteSize(Cur.hdr)
          = PlaneOffset(Cur.hdr, PlaneIndex(Cur.hdr, last.t, last.w, last.z) + 1)

C1_Witness ==
  /\ last.op = "IMPosnZWT" /\ last.res = "0" /\ Cur.kind = "dv"
  /\ InRange(Cur.hdr, last.t, last.w, last.z)
  /\ last.t >= 1 /\ last.w >= 1 /\ last.z >= 1
  /\ Cur.hdr.interleaved = 0

\* C2: IMPosnZWT returns 1 exactly when t >= num_times or w >= num_waves or
\* z >= realZCount, and 0 for every triple strictly below the three extents.
C2_Validation ==
  (last.op = "IMPosnZWT" /\ last.res \in {"0", "1"})
  => ((last.res = "1") <=> (\/ last.t >= Cur.hdr.num_times
                            \/ last.w >= Cur.hdr.num_waves
                            \/ last.z >= realZCount(Cur.hdr)))

C2_Witness ==
  /\ last.op = "IMPosnZWT" /\ last.res = "1"
  /\ last.t = Cur.hdr.num_times /\ last.t >= 1
  /\ last.w < Cur.hdr.num_waves /\ last.z < realZCount(Cur.hdr)

\* C3: on an open handle over a complete file, the k-th sequential read after
\* a position call that returned success for plane n delivers exactly the bytes
\* of plane n+k-1 and leaves the stream planeByteSize further, while that plane
\* is inside the stack.
C3_Sequential ==
  (/\ last.op = "IMRdSec" /\ last.exp # NoIdx
   /\ Cur.kind = "dv" /\ ~Cur.closed
   /\ Complete(Cur) /\ PlaneStored(Cur, last.exp))
  => /\ last.res = "returned"
     /\ last.start = PlaneOffset(Cur.hdr, last.exp)
     /\ last.got = planeByteSize(Cur.hdr)
     /\ Cur.pos = last.start + planeByteSize(Cur.hdr)

\* C4 as claimed: on a closed handle every plane read, sequential or positioned
\* with any coordinates, fails with the closed-handle error and delivers no data.
C4_Original ==
  (last.op \in {"IMRdSec", "readSecZWT"} /\ Cur.kind = "dv" /\ Cur.closed)
  => (last.res = ErrClosed /\ last.got = 0)

\* C4 as amended: on a closed handle no plane read delivers data; the sequential
\* read and the positioned read whose coordinates pass the bounds test fail with
\* the closed-handle error, a positioned read with t, w or z at or above its
\* extent fails with the out-of-range error.
C4_ClosedRead ==
  (last.op \in {"IMRdSec", "readSecZWT"} /\ Cur.kind = "dv" /\ Cur.closed)
  => /\ last.got = 0
     /\ IF /\ last.op = "readSecZWT"
           /\ (\/ last.t >= Cur.hdr.num_times
               \/ last.w >= Cur.hdr.num_waves
               \/ last.z >= realZCount(Cur.hdr))
        THEN last.res \in RangeErrors
        ELSE last.res = ErrClosed

C4_Witness ==
  /\ last.op = "readSecZWT" /\ Cur.kind = "dv" /\ Cur.closed
  /\ last.res = ErrSection

\* C5: IMOpen in mode "ro" of a file whose marker is neither A0 C0 nor C0 A0
\* returns -1 and leaves no entry for the id in the table; with either
\* recognised marker it returns 0 and the handle is open.
C5_Marker ==
  (/\ last.op = "IMOpen" /\ last.attrib = "ro" /\ last.res # "undefined"
   /\ fs[last.name].exists)
  => IF fs[last.name].marker \in {MarkerLE, MarkerBE}
     THEN last.res = "0" /\ Cur.kind = "dv" /\ ~Cur.closed
     ELSE last.res = "-1" /\ Cur.kind = "absent"

\* C6: a plane read that delivers fewer than planeByteSize bytes does not
\* return normally: it is reported to the caller as an error.
C6_ShortRead ==
  (/\ last.op \in {"IMRdSec", "readSecZWT"} /\ Cur.kind = "dv"
   /\ last.got < planeByteSize(Cur.hdr))
  => last.res # "returned"

\* C7: a little-endian file with marker A0 C0 and a big-endian file with marker
\* C0 A0 that store the same header values decode to the same fields.
C7_ByteOrder ==
  \A i \in Streams, j \in Streams :
    (/\ dvfile_map[i].kind = "dv" /\ dvfile_map[i].path = "a.dv"
     /\ dvfile_map[j].kind = "dv" /\ dvfile_map[j].path = "b.dv")
    => \A f \in {"nx", "ny", "nz", "mode", "inbsym", "num_times", "num_waves"} :
         dvfile_map[i].hdr[f] = dvfile_map[j].hdr[f]

AxisExtent(h, c) ==
  CASE c = "T" -> h.num_times
    [] c = "C" -> h.num_waves
    [] c = "Z" -> realZCount(h)
    [] c = "Y" -> h.ny
    [] c = "X" -> h.nx

axisOrder(code) ==
  CASE code = 1 -> <<"T", "Z", "C", "Y", "X">>
    [] code = 2 -> <<"T", "C", "Z", "Y", "X">>
    [] OTHER -> <<"C", "T", "Z", "Y", "X">>

\* C8: the entries of sizes(), in iteration order, are the five letters of the
\* axis order of the interleave code, each with its extent.
C8_AxisOrder ==
  (last.op = "sizes" /\ last.res = "returned")
  => last.out = [k \in 1..5 |-> <<axisOrder(Cur.hdr.interleaved)[k],
                                   AxisExtent(Cur.hdr, axisOrder(Cur.hdr.interleaved)[k])>>]

\* C9: on an open handle over a complete file a positioned read with in-range
\* (t, c, z) delivers the bytes of that plane, whatever came before.
C9_PositionedRead ==
  (/\ last.op = "readSecZWT" /\ Cur.kind = "dv" /\ ~Cur.closed
   /\ Complete(Cur)
   /\ InRange(Cur.hdr, last.t, last.w, last.z)
   /\ PlaneStored(Cur, PlaneIndex(Cur.hdr, last.t, last.w, last.z)))
  => /\ last.res = "returned"
     /\ last.start = PlaneOffset(Cur.hdr, PlaneIndex(Cur.hdr, last.t, last.w, last.z))
     /\ last.got = planeByteSize(Cur.hdr)

\* C10 as claimed: an IMOpen that returns -1 leaves every handle that was in
\* the table, the one under the same id included, as it was.
C10_Original ==
  [][(last'.op = "IMOpen" /\ last'.res = "-1")
       => \A j \in Streams :
            dvfile_map[j].kind = "dv" => dvfile_map'[j] = dvfile_map[j]]_vars

\* C10 as amended: an IMOpen that returns -1 leaves every handle under another
\* id as it was; under the id it was called with no handle remains.
C10_FailedOpen ==
  [][(last'.op = "IMOpen" /\ last'.res = "-1")
       => /\ \A j \in Streams \ {last'.i} : dvfile_map'[j] = dvfile_map[j]
          /\ dvfile_map'[last'.i].kind # "dv"]_vars

C10_Witness ==
  /\ last.op = "IMOpen" /\ last.res = "-1" /\ last.warn
  /\ \E j \in Streams \ {last.i} : dvfile_map[j].kind = "dv"
====
